---- MODULE Spec2Model ----
(***************************************************************************)
(* MiniMem: the alignment pipeline of backend/rag.py and the endpoints of  *)
(* backend/main.py (both given in src/ticket_2.md), and the chat session   *)
(* of src/frontend/src/app/page.tsx that calls them.                       *)
(*                                                                         *)
(* Encoding.  A JSON value is a string: "null", "true", "false", or any    *)
(* other string for a JSON string; a key a JavaScript object lacks reads   *)
(* "undefined".  The one numeric field, similarity, is an integer counting *)
(* millionths (750000 is 0.75).  A Python dict / JSON object is a function *)
(* from its keys to such values.                                           *)
(***************************************************************************)
EXTENDS Integers, Sequences, FiniteSets, TLC

VARIABLES
    store,              \* rows of the decisions table (read-only)
    \* ---- POST /api/analyze: one invocation of analyze_alignment ----
    analyzeReq,         \* the request in flight: [st, message, history]
    a_pc,               \* "idle" | "embedding" | "fetching" | "judging" | "done" | "error"
    history,            \* analyze_alignment's filtered history
    conversation_text,  \* check_alignment's query string, a sequence of lines
    query_embedding,    \* find_relevant_context's embedding of the query
    relevant_context,   \* check_alignment's retrieved rows
    raw,                \* check_alignment's raw: the completion's message content
    a_result,           \* the dict check_alignment returns
    a_error,            \* the exception that ended the invocation
    embed_calls,        \* client.embeddings.create calls of this invocation
    fetch_calls,        \* pool.fetch calls of this invocation
    judge_calls,        \* client.chat.completions.create calls of this invocation
    \* ---- POST /api/chat: one invocation of chat_with_teammate ----
    chatReq,            \* the request in flight: [st, message, history]
    c_pc,               \* "idle" | "completing" | "done" | "error"
    chat_messages,      \* the messages forwarded to the completion service
    \* ---- the browser session (page.tsx, Home) ----
    messages,           \* useState<Message[]>
    isSending,
    isAlexTyping,
    isMinimemAnalyzing,
    gameStage,          \* 'idle' | 'misaligned' | 'aligned'
    openerPending,      \* the 1.5 s timer of the opener has not fired yet
    send_pc,            \* where handleSend is: "idle" | "awaiting" | "alexTimer" | "minimemTimer"
    closureStage,       \* gameStage as captured by the running handleSend
    chatRes,            \* the /api/chat response: [st] or [st, body]
    analyzeRes,         \* the /api/analyze response: [st] or [st, body]
    chatData,           \* parsed body of chatRes
    alignmentData,      \* parsed body of analyzeRes
    sends,              \* number of sends accepted so far
    \* ---- rag.py called directly, not through the endpoint ----
    retrieval,          \* a query of find_relevant_context and its re-run
    invocations         \* the frames of two concurrent calls of check_alignment

pipelineVars == <<analyzeReq, a_pc, history, conversation_text, query_embedding,
                  relevant_context, raw, a_result, a_error, embed_calls, fetch_calls,
                  judge_calls, analyzeRes>>
chatVars == <<chatReq, c_pc, chat_messages, chatRes>>
sessionVars == <<messages, isSending, isAlexTyping, isMinimemAnalyzing, gameStage,
                 openerPending, send_pc, closureStage, chatData, alignmentData, sends>>
callerVars == <<retrieval, invocations>>
vars == <<store, callerVars, pipelineVars, chatVars, sessionVars>>

\* ------------------------------------------------------------------ bounds

\* Largest number of rows in the decisions table.
MaxDecisions == 2
\* Longest history an HTTP client other than the page posts to /api/analyze.
MaxHistory == 3
\* Number of sends the browser session accepts.
MaxSends == 3
\* Longest history posted to /api/analyze when the window is exercised.
MaxLongHistory == 5
\* Largest number of stored decisions under two concurrent invocations.
MaxPairDecisions == 1

\* ------------------------------------------------------------- constants

SIMILARITY_THRESHOLD == 750000
\* check_alignment's window and top_k, chat_with_teammate's window
AnalyzeWindow == 4
AnalyzeTopK == 4
ChatWindow == 6

\* The values 1 - (d.embedding <=> q) takes in the model: the threshold, one
\* millionth below it, and the two ends of the cosine range.
SimValues == {-1000000, 749999, SIMILARITY_THRESHOLD, 1000000}

Senders == {"user", "alex", "minimem"}
Contents == {"c1", "c2"}

\* ------------------------------------------------------------ the store

\* meetings(id, title, date)
MeetingTitles == <<"Q1 All-Hands", "Product Sync">>
MeetingDates == <<"2025-02-01", "2025-02-08">>
\* decisions(id, meeting_id, content): the content of decision i
DecisionTexts == <<"d1", "d2", "d3", "d4", "d5", "d6">>

Decision(i) ==
    [id |-> i, meeting_id |-> ((i - 1) % Len(MeetingTitles)) + 1, content |-> DecisionTexts[i]]

Stores == {[i \in 1..n |-> Decision(i)] : n \in 0..MaxDecisions}

\* An embedding of a query is identified by the cosine similarity it has to
\* each stored decision.
Embeddings(s) == [1..Len(s) -> SimValues]

\* ------------------------------------------------------- small helpers

Min2(a, b) == IF a < b THEN a ELSE b

\* Python's seq[-n:]
LastN(seq, n) ==
    IF Len(seq) <= n THEN seq ELSE SubSeq(seq, Len(seq) - n + 1, Len(seq))

RECURSIVE FilterSeq(_, _)
FilterSeq(seq, keep) ==
    IF seq = <<>> THEN <<>>
    ELSE IF Head(seq).sender \in keep
         THEN <<Head(seq)>> \o FilterSeq(Tail(seq), keep)
         ELSE FilterSeq(Tail(seq), keep)

\* str.capitalize() on a sender tag
Capitalize(s) ==
    CASE s = "user" -> "User"
      [] s = "alex" -> "Alex"
      [] s = "minimem" -> "Minimem"
      [] OTHER -> s

\* dict.get / JavaScript property read
Get(d, k) == IF k \in DOMAIN d THEN d[k] ELSE "undefined"

\* JavaScript's !v on the encoded values
Falsy(v) == v \in {"false", "null", "undefined", ""}

\* --------------------------------------------- rag.py: pure computations

\* Variant: the comprehension without its condition
FilterHistory_All(h) ==
    [i \in 1..Len(h) |-> [sender |-> h[i].sender, content |-> h[i].content]]

\* Variant: the window is cut from the posted history, then filtered
FilterHistory_AfterWindow(h) ==
    [i \in 1..Len(FilterSeq(LastN(h, AnalyzeWindow), {"user", "alex"})) |->
        [sender |-> FilterSeq(LastN(h, AnalyzeWindow), {"user", "alex"})[i].sender,
         content |-> FilterSeq(LastN(h, AnalyzeWindow), {"user", "alex"})[i].content]]

\* analyze_alignment's comprehension: keeps user and alex turns only
FilterHistory(h) ==
    [i \in 1..Len(FilterSeq(h, {"user", "alex"})) |->
        [sender |-> FilterSeq(h, {"user", "alex"})[i].sender,
         content |-> FilterSeq(h, {"user", "alex"})[i].content]]

\* Variant: conversation_history[:4], the first 4 messages
ConversationText_Head(h) ==
    [i \in 1..Min2(Len(h), AnalyzeWindow) |->
        <<Capitalize(h[i].sender), h[i].content>>]

\* check_alignment: "\n".join(f"{sender.capitalize()}: {content}") over the
\* last 4 messages; a line is the pair <<label, content>>
ConversationText(h) ==
    [i \in 1..Len(LastN(h, AnalyzeWindow)) |->
        <<Capitalize(LastN(h, AnalyzeWindow)[i].sender), LastN(h, AnalyzeWindow)[i].content>>]

\* One row of find_relevant_context's SELECT for decision d under embedding e
Row(d, e) ==
    [decision |-> d.content,
     meeting_title |-> MeetingTitles[d.meeting_id],
     meeting_date |-> MeetingDates[d.meeting_id],
     similarity |-> e[d.id]]

\* ORDER BY d.embedding <=> $1 LIMIT $2: every order of decision ids the
\* query may return.  Rows at equal distance come in an order SQL leaves open.
Rankings(s, e, top_k) ==
    {p \in [1..Min2(top_k, Len(s)) -> 1..Len(s)] :
        /\ \A i, j \in DOMAIN p : i < j => (p[i] # p[j] /\ e[p[i]] >= e[p[j]])
        /\ \A x \in 1..Len(s) :
              (\A i \in DOMAIN p : p[i] # x) => \A i \in DOMAIN p : e[x] <= e[p[i]]}

RowsOf(s, e, p) == [i \in DOMAIN p |-> Row(s[p[i]], e)]

\* Variant: the gate without the threshold test
Gate_NoThreshold(rows) ==
    ~(rows = <<>>)

\* Variant: <= in place of <
Gate_Exclusive(rows) ==
    ~(rows = <<>> \/ rows[1].similarity <= SIMILARITY_THRESHOLD)

\* The threshold gate: TRUE when check_alignment goes on to the judge
Gate(rows) ==
    ~(rows = <<>> \/ rows[1].similarity < SIMILARITY_THRESHOLD)

\* Variant: an empty retrieval reported as a perfect match (distance 0)
GatedResult_EmptyTop(rows) ==
    [aligned |-> "true",
     issue |-> "null",
     relevant_decision |-> "null",
     meeting_title |-> "null",
     meeting_date |-> "null",
     similarity |-> IF rows # <<>> THEN rows[1].similarity ELSE 1000000,
     severity |-> "null"]

\* The dict check_alignment returns when the gate closes
GatedResult(rows) ==
    [aligned |-> "true",
     issue |-> "null",
     relevant_decision |-> "null",
     meeting_title |-> "null",
     meeting_date |-> "null",
     similarity |-> IF rows # <<>> THEN rows[1].similarity ELSE 0,
     severity |-> "null"]

\* What the completion service may answer.  kind "text" is a body that is
\* not JSON, "array" a JSON value that is no object, "object" a JSON object.
VerdictAligned ==
    [aligned |-> "true", issue |-> "null", relevant_decision |-> "null",
     meeting_title |-> "null", severity |-> "null"]

VerdictMisaligned(row) ==
    [aligned |-> "false", issue |-> "contradiction", relevant_decision |-> row.decision,
     meeting_title |-> row.meeting_title, severity |-> "high"]

MalformedVerdicts ==
    { [aligned |-> "false", issue |-> "null", relevant_decision |-> "null",
       meeting_title |-> "null", severity |-> "null"],
      [aligned |-> "true", issue |-> "contradiction", relevant_decision |-> "null",
       meeting_title |-> "null", severity |-> "null"],
      [aligned |-> "false", issue |-> "contradiction", relevant_decision |-> "invented",
       meeting_title |-> "Q1 All-Hands", severity |-> "critical"],
      [issue |-> "contradiction"],
      [aligned |-> "true", issue |-> "null", relevant_decision |-> "null",
       meeting_title |-> "null", severity |-> "null",
       meeting_date |-> "1999-01-01", similarity |-> 5000000] }

CompletionResponses(rows) ==
    {[kind |-> "text"], [kind |-> "array"]}
    \cup {[kind |-> "object", value |-> v] :
            v \in {VerdictAligned} \cup {VerdictMisaligned(rows[i]) : i \in DOMAIN rows}
                  \cup MalformedVerdicts}

\* Variant: a body that is not JSON read as "nothing to report"
json_loads_Lenient(body) ==
    IF body.kind = "text" THEN [ok |-> TRUE, isDict |-> TRUE, value |-> VerdictAligned]
    ELSE IF body.kind = "array" THEN [ok |-> TRUE, isDict |-> FALSE]
    ELSE [ok |-> TRUE, isDict |-> TRUE, value |-> body.value]

\* json.loads(raw): raises json.JSONDecodeError on a body that is not JSON
json_loads(body) ==
    IF body.kind = "text" THEN [ok |-> FALSE, error |-> "JSONDecodeError"]
    ELSE IF body.kind = "array" THEN [ok |-> TRUE, isDict |-> FALSE]
    ELSE [ok |-> TRUE, isDict |-> TRUE, value |-> body.value]

\* Variant: only the similarity is written over the parsed result
Overlay_SimilarityOnly(result, top) ==
    [k \in DOMAIN result \cup {"similarity"} |->
        IF k = "similarity" THEN top.similarity ELSE result[k]]

\* Variant: dict.setdefault in place of assignment
Overlay_KeepExisting(result, top) ==
    [k \in DOMAIN result \cup {"meeting_date", "similarity"} |->
        IF k \in DOMAIN result THEN result[k]
        ELSE IF k = "meeting_date" THEN top.meeting_date
        ELSE top.similarity]

\* result["meeting_date"] = top["meeting_date"]; result["similarity"] = top["similarity"]
Overlay(result, top) ==
    [k \in DOMAIN result \cup {"meeting_date", "similarity"} |->
        IF k = "meeting_date" THEN top.meeting_date
        ELSE IF k = "similarity" THEN top.similarity
        ELSE result[k]]

\* check_alignment from the completion's return to its own return
Judged(body, rows) ==
    IF ~json_loads(body).ok THEN [ok |-> FALSE, error |-> json_loads(body).error]
    ELSE IF ~json_loads(body).isDict THEN [ok |-> FALSE, error |-> "TypeError"]
    ELSE [ok |-> TRUE, result |-> Overlay(json_loads(body).value, rows[1])]

\* ------------------------------------------- main.py: /api/chat, pure part

ChatRole(sender) == IF sender = "user" THEN "user" ELSE "assistant"

\* Variant: every turn of the window is forwarded, minimem turns as assistant
ChatMessages_All(req) ==
    <<[role |-> "system", content |-> "system_prompt"]>>
    \o [i \in 1..Len(LastN(req.history, ChatWindow)) |->
          [role |-> ChatRole(LastN(req.history, ChatWindow)[i].sender),
           content |-> LastN(req.history, ChatWindow)[i].content]]
    \o <<[role |-> "user", content |-> req.message]>>

\* chat_with_teammate: system prompt, the user and alex turns among the
\* last 6 of the history, then the new message
ChatMessages(req) ==
    <<[role |-> "system", content |-> "system_prompt"]>>
    \o [i \in 1..Len(FilterSeq(LastN(req.history, ChatWindow), {"user", "alex"})) |->
          [role |-> ChatRole(FilterSeq(LastN(req.history, ChatWindow), {"user", "alex"})[i].sender),
           content |-> FilterSeq(LastN(req.history, ChatWindow), {"user", "alex"})[i].content]]
    \o <<[role |-> "user", content |-> req.message]>>

Replies == {"r1"}

\* ----------------------------------------------- page.tsx: pure part

\* What the textarea may hold: a body with or without surrounding blanks
Inputs == [pad : BOOLEAN, body : {"", "c1"}]

\* input.trim()
Trim(input) == input.body

EmptyObject == [k \in {} |-> "undefined"]

\* A Message.  id keeps the prefix of the source's id (the Date.now() part
\* and the timestamp are left out); alertData, the copy of the verdict's
\* fields that the alert card displays, is left out as well.
Msg(id, sender, content) ==
    [id |-> id, sender |-> sender, content |-> content, alertType |-> "none"]

ALEX_OPENER == Msg("opener", "alex", "opener")

\* The catch block's two notices
TimeoutNotice == "taking a while"
ConnectionNotice == "connection issues"

\* handleSend: [...messages, userMsg].filter(sender !== 'minimem').map(...)
ClientHistory(msgs) ==
    [i \in 1..Len(FilterSeq(msgs, Senders \ {"minimem"})) |->
        [sender |-> FilterSeq(msgs, Senders \ {"minimem"})[i].sender,
         content |-> FilterSeq(msgs, Senders \ {"minimem"})[i].content]]

\* The warning posted for a result whose aligned is falsy
WarningMsg ==
    [id |-> "minimem", sender |-> "minimem", content |-> "", alertType |-> "warning"]

SuccessMsg ==
    [id |-> "minimem-success", sender |-> "minimem", content |-> "",
     alertType |-> "success"]

\* Variant: no second warning while the stage is already 'misaligned'
Verdict_WarnOnce(data, stage) ==
    IF Falsy(Get(data, "aligned"))
    THEN IF stage = "misaligned" THEN "none" ELSE "warning"
    ELSE IF stage = "misaligned" THEN "success"
    ELSE "none"

\* Variant: the else branch without its test of the stage
Verdict_AnyStage(data, stage) ==
    IF Falsy(Get(data, "aligned")) THEN "warning" ELSE "success"

\* The branch the 900 ms callback takes: "warning", "success" or "none".
\* stage is the gameStage the running handleSend closed over.
Verdict(data, stage) ==
    IF Falsy(Get(data, "aligned")) THEN "warning"
    ELSE IF stage = "misaligned" THEN "success"
    ELSE "none"

\* ------------------------------------------------------------------ Init

NoRetrieval == [st |-> "none"]

\* Two callers of check_alignment at once
Callers == {1, 2}

\* The frame of one call of check_alignment: its arguments and locals
IdleFrame ==
    [pc |-> "idle", request |-> [message |-> "", history |-> <<>>],
     conversation_history |-> <<>>,
     conversation_text |-> <<>>, query_embedding |-> <<>>, relevant_context |-> <<>>,
     raw |-> [kind |-> "none"], result |-> <<>>, error |-> "none"]

NoRequest == [st |-> "none"]
NoRaw == [kind |-> "none"]
NoResponse == [st |-> "none"]
Pending == [st |-> "pending"]

Init ==
    /\ store \in Stores
    /\ analyzeReq = NoRequest
    /\ a_pc = "idle"
    /\ history = <<>>
    /\ conversation_text = <<>>
    /\ query_embedding = <<>>
    /\ relevant_context = <<>>
    /\ raw = NoRaw
    /\ a_result = EmptyObject
    /\ a_error = "none"
    /\ embed_calls = 0
    /\ fetch_calls = 0
    /\ judge_calls = 0
    /\ chatReq = NoRequest
    /\ c_pc = "idle"
    /\ chat_messages = <<>>
    /\ messages = <<>>
    /\ isSending = FALSE
    /\ isAlexTyping = FALSE
    /\ isMinimemAnalyzing = FALSE
    /\ gameStage = "idle"
    /\ openerPending = TRUE
    /\ send_pc = "idle"
    /\ closureStage = "idle"
    /\ chatRes = NoResponse
    /\ analyzeRes = NoResponse
    /\ chatData = EmptyObject
    /\ alignmentData = EmptyObject
    /\ sends = 0
    /\ retrieval = NoRetrieval
    /\ invocations = [i \in Callers |-> IdleFrame]

\* ------------------------------------------------- /api/analyze, stepwise

\* check_alignment ends by raising: FastAPI answers 500
Raise(kind) ==
    /\ a_pc' = "error"
    /\ a_error' = kind
    /\ analyzeRes' = [st |-> "status500"]
    /\ UNCHANGED a_result

\* check_alignment returns result: FastAPI answers 200 with it as the body
Return(result) ==
    /\ a_pc' = "done"
    /\ a_result' = result
    /\ analyzeRes' = [st |-> "ok", body |-> result]
    /\ UNCHANGED a_error

\* analyze_alignment up to its first await: filters the history, builds the
\* query string and calls the embedding service
AnalyzeRequest ==
    /\ analyzeReq.st = "posted"
    /\ analyzeReq' = [analyzeReq EXCEPT !.st = "handling"]
    /\ history' = FilterHistory(analyzeReq.history)
    /\ conversation_text' = ConversationText(history')
    /\ query_embedding' = <<>>
    /\ relevant_context' = <<>>
    /\ raw' = NoRaw
    /\ a_result' = EmptyObject
    /\ a_error' = "none"
    /\ embed_calls' = 1
    /\ fetch_calls' = 0
    /\ judge_calls' = 0
    /\ a_pc' = "embedding"
    /\ UNCHANGED <<store, callerVars, analyzeRes, chatVars, sessionVars>>

\* Variant: a failed embedding call is issued again
EmbeddingReturns_Retry ==
    /\ a_pc = "embedding"
    /\ \/ /\ \E e \in Embeddings(store) : query_embedding' = e
          /\ fetch_calls' = fetch_calls + 1
          /\ a_pc' = "fetching"
          /\ UNCHANGED <<a_result, a_error, analyzeRes, embed_calls>>
       \/ /\ embed_calls < 3
          /\ embed_calls' = embed_calls + 1
          /\ UNCHANGED <<a_pc, query_embedding, fetch_calls, a_result, a_error, analyzeRes>>
    /\ UNCHANGED <<store, callerVars, analyzeReq, history, conversation_text,
                   relevant_context, raw, judge_calls, chatVars, sessionVars>>

\* Variant: the completion call is issued together with pool.fetch
EmbeddingReturns_Eager ==
    /\ a_pc = "embedding"
    /\ \/ /\ \E e \in Embeddings(store) : query_embedding' = e
          /\ fetch_calls' = fetch_calls + 1
          /\ judge_calls' = judge_calls + 1
          /\ a_pc' = "fetching"
          /\ UNCHANGED <<a_result, a_error, analyzeRes>>
       \/ /\ Raise("EmbeddingServiceError")
          /\ UNCHANGED <<query_embedding, fetch_calls, judge_calls>>
    /\ UNCHANGED <<store, callerVars, analyzeReq, history, conversation_text,
                   relevant_context, raw, embed_calls, chatVars, sessionVars>>

\* generate_embedding returns (or raises); find_relevant_context then
\* issues pool.fetch
EmbeddingReturns ==
    /\ a_pc = "embedding"
    /\ \/ /\ \E e \in Embeddings(store) : query_embedding' = e
          /\ fetch_calls' = fetch_calls + 1
          /\ a_pc' = "fetching"
          /\ UNCHANGED <<a_result, a_error, analyzeRes>>
       \/ /\ Raise("EmbeddingServiceError")
          /\ UNCHANGED <<query_embedding, fetch_calls>>
    /\ UNCHANGED <<store, callerVars, analyzeReq, history, conversation_text, relevant_context, raw,
                   embed_calls, judge_calls, chatVars, sessionVars>>

\* pool.fetch returns (or raises); check_alignment evaluates the gate and
\* either returns or calls the completion service
FetchReturns ==
    /\ a_pc = "fetching"
    /\ query_embedding' = <<>>
    /\ \/ \E p \in Rankings(store, query_embedding, AnalyzeTopK) :
            /\ relevant_context' = RowsOf(store, query_embedding, p)
            /\ IF Gate(relevant_context')
               THEN /\ judge_calls' = judge_calls + 1
                    /\ a_pc' = "judging"
                    /\ UNCHANGED <<a_result, a_error, analyzeRes>>
               ELSE /\ Return(GatedResult(relevant_context'))
                    /\ UNCHANGED judge_calls
       \/ /\ Raise("RetrievalError")
          /\ UNCHANGED <<relevant_context, judge_calls>>
    /\ UNCHANGED <<store, callerVars, analyzeReq, history, conversation_text, raw,
                   embed_calls, fetch_calls, chatVars, sessionVars>>

\* The completion call returns (or raises); check_alignment parses the body,
\* attaches the retrieval metadata and returns
CompletionReturns ==
    /\ a_pc = "judging"
    /\ \/ \E content \in CompletionResponses(relevant_context) :
            /\ raw' = content
            /\ IF Judged(content, relevant_context).ok
               THEN Return(Judged(content, relevant_context).result)
               ELSE Raise(Judged(content, relevant_context).error)
       \/ /\ Raise("JudgmentServiceError")
          /\ UNCHANGED raw
    /\ UNCHANGED <<store, callerVars, analyzeReq, history, conversation_text, query_embedding,
                   relevant_context, embed_calls, fetch_calls, judge_calls,
                   chatVars, sessionVars>>

\* --------------------------------------------------- /api/chat, stepwise

\* chat_with_teammate up to its await
ChatRequest ==
    /\ chatReq.st = "posted"
    /\ chatReq' = [chatReq EXCEPT !.st = "handling"]
    /\ chat_messages' = ChatMessages(chatReq)
    /\ c_pc' = "completing"
    /\ UNCHANGED <<store, callerVars, pipelineVars, chatRes, sessionVars>>

\* The completion call returns (or raises)
ChatCompletionReturns ==
    /\ c_pc = "completing"
    /\ \/ /\ \E r \in Replies :
               chatRes' = [st |-> "ok", body |-> [content |-> r, sender |-> "alex"]]
          /\ c_pc' = "done"
       \/ /\ chatRes' = [st |-> "status500"]
          /\ c_pc' = "error"
    /\ UNCHANGED <<store, callerVars, pipelineVars, chatReq, chat_messages, sessionVars>>

\* ------------------------------------------------ page.tsx, the session

\* An invocation whose response has been consumed, or that nobody listens
\* to any more, is over: its locals are gone.
RetireAnalyzeLocals ==
    /\ a_pc' = "idle"
    /\ history' = <<>>
    /\ conversation_text' = <<>>
    /\ query_embedding' = <<>>
    /\ relevant_context' = <<>>
    /\ raw' = NoRaw
    /\ a_result' = EmptyObject
    /\ a_error' = "none"
    /\ embed_calls' = 0
    /\ fetch_calls' = 0
    /\ judge_calls' = 0

RetireAnalyze ==
    /\ RetireAnalyzeLocals
    /\ analyzeReq' = NoRequest
    /\ analyzeRes' = NoResponse

RetireChat ==
    /\ chatReq' = NoRequest
    /\ c_pc' = "idle"
    /\ chat_messages' = <<>>
    /\ chatRes' = NoResponse

\* The 1.5 s timer of the first effect: Alex opens the conversation
OpenerArrives ==
    /\ openerPending
    /\ openerPending' = FALSE
    /\ messages' = Append(messages, ALEX_OPENER)
    /\ UNCHANGED <<store, callerVars, pipelineVars, chatVars, isSending, isAlexTyping,
                   isMinimemAnalyzing, gameStage, send_pc, closureStage, chatData,
                   alignmentData, sends>>

\* Variant: handleSend without the isSending test
handleSend_NoGuard ==
    /\ sends < MaxSends
    /\ \E input \in Inputs :
        /\ ~(Trim(input) = "")
        /\ isSending' = TRUE
        /\ messages' = Append(messages, Msg("user", "user", Trim(input)))
        /\ isAlexTyping' = TRUE
        /\ chatReq' = [st |-> "posted", message |-> Trim(input),
                       history |-> ClientHistory(messages')]
        /\ analyzeReq' = [st |-> "posted", message |-> Trim(input),
                          history |-> ClientHistory(messages')]
    /\ chatRes' = Pending
    /\ analyzeRes' = Pending
    /\ send_pc' = "awaiting"
    /\ closureStage' = gameStage
    /\ sends' = sends + 1
    /\ UNCHANGED <<store, callerVars, a_pc, history, conversation_text, query_embedding,
                   relevant_context, raw, a_result, a_error, embed_calls, fetch_calls,
                   judge_calls, c_pc, chat_messages, isMinimemAnalyzing, gameStage,
                   openerPending, chatData, alignmentData>>

\* handleSend up to its await: posts the user message and fires both requests
handleSend ==
    /\ sends < MaxSends
    /\ \E input \in Inputs :
        /\ ~(Trim(input) = "" \/ isSending)
        /\ isSending' = TRUE
        /\ messages' = Append(messages, Msg("user", "user", Trim(input)))
        /\ isAlexTyping' = TRUE
        /\ chatReq' = [st |-> "posted", message |-> Trim(input),
                       history |-> ClientHistory(messages')]
        /\ analyzeReq' = [st |-> "posted", message |-> Trim(input),
                          history |-> ClientHistory(messages')]
    /\ chatRes' = Pending
    /\ analyzeRes' = Pending
    /\ send_pc' = "awaiting"
    /\ closureStage' = gameStage
    /\ sends' = sends + 1
    /\ UNCHANGED <<store, callerVars, a_pc, history, conversation_text, query_embedding,
                   relevant_context, raw, a_result, a_error, embed_calls, fetch_calls,
                   judge_calls, c_pc, chat_messages, isMinimemAnalyzing, gameStage,
                   openerPending, chatData, alignmentData>>

\* Variant: the catch block does not release the input
Catch_StuckSending(isTimeout) ==
    /\ isAlexTyping' = FALSE
    /\ isMinimemAnalyzing' = FALSE
    /\ isSending' = isSending
    /\ messages' = Append(messages,
                          Msg("error", "alex",
                              IF isTimeout THEN TimeoutNotice ELSE ConnectionNotice))
    /\ send_pc' = "idle"
    /\ closureStage' = "idle"
    /\ RetireChat
    /\ RetireAnalyze
    /\ UNCHANGED <<store, callerVars, gameStage, openerPending, chatData, alignmentData, sends>>

\* Variant: the catch block also puts the stage back to 'idle'
Catch_ResetStage(isTimeout) ==
    /\ isAlexTyping' = FALSE
    /\ isMinimemAnalyzing' = FALSE
    /\ isSending' = FALSE
    /\ messages' = Append(messages,
                          Msg("error", "alex",
                              IF isTimeout THEN TimeoutNotice ELSE ConnectionNotice))
    /\ send_pc' = "idle"
    /\ closureStage' = "idle"
    /\ gameStage' = "idle"
    /\ RetireChat
    /\ RetireAnalyze
    /\ UNCHANGED <<store, callerVars, openerPending, chatData, alignmentData, sends>>

\* handleSend's catch block
Catch(isTimeout) ==
    /\ isAlexTyping' = FALSE
    /\ isMinimemAnalyzing' = FALSE
    /\ isSending' = FALSE
    /\ messages' = Append(messages,
                          Msg("error", "alex",
                              IF isTimeout THEN TimeoutNotice ELSE ConnectionNotice))
    /\ send_pc' = "idle"
    /\ closureStage' = "idle"
    /\ RetireChat
    /\ RetireAnalyze
    /\ UNCHANGED <<store, callerVars, gameStage, openerPending, chatData, alignmentData, sends>>

Rejected(name) == [st |-> "rejected", name |-> name]

IsRejected(res) == res.st = "rejected"

\* One of the two fetchWithTimeout promises rejects while Promise.all is
\* awaited: the 15 s timer aborted the fetch (AbortError), or the network
\* failed (TypeError).  Promise.all rejects with it; what the server still
\* does for either request reaches nobody.
FetchRejects ==
    /\ send_pc = "awaiting"
    /\ ~IsRejected(chatRes) /\ ~IsRejected(analyzeRes)
    /\ \E name \in {"AbortError", "TypeError"} :
          \* 15 s after the send, the opener's 1.5 s are long over
          /\ name = "AbortError" => ~openerPending
          /\ \/ /\ chatRes.st = "pending"
                /\ chatRes' = Rejected(name)
                /\ UNCHANGED analyzeRes
             \/ /\ analyzeRes.st = "pending"
                /\ analyzeRes' = Rejected(name)
                /\ UNCHANGED chatRes
    /\ RetireAnalyzeLocals
    /\ analyzeReq' = NoRequest
    /\ chatReq' = NoRequest
    /\ c_pc' = "idle"
    /\ chat_messages' = <<>>
    /\ UNCHANGED <<store, callerVars, sessionVars>>

\* The await of Promise.all throws the rejection: the catch block runs
PromiseAllRejects ==
    /\ send_pc = "awaiting"
    /\ IsRejected(chatRes) \/ IsRejected(analyzeRes)
    /\ Catch(IF IsRejected(chatRes) THEN chatRes.name = "AbortError"
             ELSE analyzeRes.name = "AbortError")

\* Variant: Promise.race in place of Promise.all
PromiseAllFulfilled_Race(chat, analyze) ==
    \/ chat.st \notin {"pending", "rejected"}
    \/ analyze.st \notin {"pending", "rejected"}

\* Promise.all([chat, analyze]) has fulfilled: both fetches resolved
PromiseAllFulfilled(chat, analyze) ==
    /\ chat.st \notin {"pending", "rejected"}
    /\ analyze.st \notin {"pending", "rejected"}

\* Both fetches resolved: the status check, then either the throw or the
\* scheduling of the 1400 ms timer
BothResolve ==
    /\ send_pc = "awaiting"
    /\ PromiseAllFulfilled(chatRes, analyzeRes)
    /\ IF chatRes.st # "ok" \/ analyzeRes.st # "ok"
       THEN Catch(FALSE)
       ELSE /\ chatData' = chatRes.body
            /\ alignmentData' = analyzeRes.body
            /\ send_pc' = "alexTimer"
            /\ RetireChat
            /\ RetireAnalyze
            /\ UNCHANGED <<store, callerVars, messages, isSending, isAlexTyping,
                           isMinimemAnalyzing, gameStage, openerPending,
                           closureStage, sends>>

\* Variant: the 1400 ms callback goes on to the verdict without the reply
AlexTimerFires_NoReply ==
    /\ send_pc = "alexTimer"
    /\ isAlexTyping' = FALSE
    /\ messages' = messages
    /\ isMinimemAnalyzing' = TRUE
    /\ send_pc' = "minimemTimer"
    /\ UNCHANGED <<store, callerVars, pipelineVars, chatVars, isSending, gameStage, openerPending,
                   closureStage, chatData, alignmentData, sends>>

\* The 1400 ms callback: Alex's reply is posted
AlexTimerFires ==
    /\ send_pc = "alexTimer"
    /\ isAlexTyping' = FALSE
    /\ messages' = Append(messages, Msg("alex", "alex", chatData.content))
    /\ isMinimemAnalyzing' = TRUE
    /\ send_pc' = "minimemTimer"
    /\ UNCHANGED <<store, callerVars, pipelineVars, chatVars, isSending, gameStage, openerPending,
                   closureStage, chatData, alignmentData, sends>>

\* Variant: the 900 ms callback ends without setIsSending(false)
MinimemTimerFires_KeepsSending ==
    /\ send_pc = "minimemTimer"
    /\ ~openerPending
    /\ isMinimemAnalyzing' = FALSE
    /\ CASE Verdict(alignmentData, closureStage) = "warning" ->
              /\ messages' = Append(messages, WarningMsg)
              /\ gameStage' = "misaligned"
         [] Verdict(alignmentData, closureStage) = "success" ->
              /\ messages' = Append(messages, SuccessMsg)
              /\ gameStage' = "aligned"
         [] OTHER ->
              UNCHANGED <<messages, gameStage>>
    /\ isSending' = isSending
    /\ send_pc' = "idle"
    /\ closureStage' = "idle"
    /\ chatData' = EmptyObject
    /\ alignmentData' = EmptyObject
    /\ UNCHANGED <<store, callerVars, pipelineVars, chatVars, isAlexTyping, openerPending, sends>>

\* The 900 ms callback: MiniMem's verdict is posted
MinimemTimerFires ==
    /\ send_pc = "minimemTimer"
    \* 1400 + 900 ms after the send, the opener's 1.5 s are over
    /\ ~openerPending
    /\ isMinimemAnalyzing' = FALSE
    /\ CASE Verdict(alignmentData, closureStage) = "warning" ->
              /\ messages' = Append(messages, WarningMsg)
              /\ gameStage' = "misaligned"
         [] Verdict(alignmentData, closureStage) = "success" ->
              /\ messages' = Append(messages, SuccessMsg)
              /\ gameStage' = "aligned"
         [] OTHER ->
              UNCHANGED <<messages, gameStage>>
    /\ isSending' = FALSE
    /\ send_pc' = "idle"
    /\ closureStage' = "idle"
    /\ chatData' = EmptyObject
    /\ alignmentData' = EmptyObject
    /\ UNCHANGED <<store, callerVars, pipelineVars, chatVars, isAlexTyping, openerPending, sends>>

\* ------------------------------------- find_relevant_context on its own

\* The query of find_relevant_context for a query vector e and a top_k
FindRelevantContext ==
    /\ retrieval.st = "none"
    /\ \E e \in Embeddings(store), top_k \in 1..AnalyzeTopK :
          \E p \in Rankings(store, e, top_k) :
             retrieval' = [st |-> "once", query_embedding |-> e, top_k |-> top_k,
                           rows |-> RowsOf(store, e, p), again |-> <<>>]
    /\ UNCHANGED <<store, invocations, pipelineVars, chatVars, sessionVars>>

\* The identical query run a second time over the same store
FindRelevantContextAgain ==
    /\ retrieval.st = "once"
    /\ \E p \in Rankings(store, retrieval.query_embedding, retrieval.top_k) :
          retrieval' = [retrieval EXCEPT
                           !.st = "twice",
                           !.again = RowsOf(store, retrieval.query_embedding, p)]
    /\ UNCHANGED <<store, invocations, pipelineVars, chatVars, sessionVars>>

\* ------------------------------------ check_alignment, two calls at once

\* Request bodies of the two callers (ChatRequest with its ChatMessageModel
\* turns): the first two differ in the message, the guardian turn and the
\* timestamps only
PairRequests ==
    { [message |-> "",
       history |-> <<[sender |-> "user", content |-> "c1", timestamp |-> "t1"]>>],
      [message |-> "c1",
       history |-> <<[sender |-> "minimem", content |-> "c2", timestamp |-> "t1"],
                     [sender |-> "user", content |-> "c1", timestamp |-> "t2"]>>],
      [message |-> "",
       history |-> <<[sender |-> "user", content |-> "c2", timestamp |-> "t1"],
                     [sender |-> "minimem", content |-> "c1", timestamp |-> "t2"],
                     [sender |-> "alex", content |-> "c1", timestamp |-> "t3"]>>] }

\* Variant: the request's message is taken as one more user turn
Started_WithMessage(req) ==
    [IdleFrame EXCEPT !.pc = "embedding",
                      !.request = req,
                      !.conversation_history =
                          FilterHistory(req.history)
                          \o <<[sender |-> "user", content |-> req.message]>>,
                      !.conversation_text =
                          ConversationText(FilterHistory(req.history)
                                           \o <<[sender |-> "user", content |-> req.message]>>)]

\* analyze_alignment up to the embedding call, as a frame
Started(req) ==
    [IdleFrame EXCEPT !.pc = "embedding",
                      !.request = req,
                      !.conversation_history = FilterHistory(req.history),
                      !.conversation_text = ConversationText(FilterHistory(req.history))]

Failed(f, kind) == [f EXCEPT !.pc = "error", !.error = kind]

\* The frame after pool.fetch returned rows: the gate
AfterFetch(f, rows) ==
    IF Gate(rows)
    THEN [f EXCEPT !.pc = "judging", !.query_embedding = <<>>, !.relevant_context = rows]
    ELSE [f EXCEPT !.pc = "done", !.query_embedding = <<>>, !.relevant_context = rows,
                   !.result = GatedResult(rows)]

\* The frame after the completion call returned body
AfterJudge(f, body) ==
    IF Judged(body, f.relevant_context).ok
    THEN [f EXCEPT !.pc = "done", !.raw = body,
                   !.result = Judged(body, f.relevant_context).result]
    ELSE [f EXCEPT !.pc = "error", !.raw = body,
                   !.error = Judged(body, f.relevant_context).error]

\* Every frame one step of check_alignment leads to from frame f over store s
Successors(f, s) ==
    CASE f.pc = "embedding" ->
           {[f EXCEPT !.pc = "fetching", !.query_embedding = e] : e \in Embeddings(s)}
           \cup {Failed(f, "EmbeddingServiceError")}
      [] f.pc = "fetching" ->
           {AfterFetch(f, RowsOf(s, f.query_embedding, p)) :
               p \in Rankings(s, f.query_embedding, AnalyzeTopK)}
           \cup {Failed([f EXCEPT !.query_embedding = <<>>], "RetrievalError")}
      [] f.pc = "judging" ->
           {AfterJudge(f, body) : body \in CompletionResponses(f.relevant_context)}
           \cup {Failed(f, "JudgmentServiceError")}
      [] OTHER -> {}

\* Variant: the locals kept in one module-level frame that every call uses
Locals_Shared(i, frames) == frames[1]

\* The locals a call works on are those of its own frame
Locals(i, frames) == frames[i]

Invoke(i) ==
    /\ invocations[i].pc = "idle"
    /\ \E req \in PairRequests :
          invocations' = [invocations EXCEPT ![i] = Started(req)]
    /\ UNCHANGED <<store, retrieval, pipelineVars, chatVars, sessionVars>>

\* One call resumes after an await
Resume(i) ==
    /\ invocations[i].pc \in {"embedding", "fetching", "judging"}
    /\ \E f \in Successors(Locals(i, invocations), store) :
          invocations' = [invocations EXCEPT ![i] = f]
    /\ UNCHANGED <<store, retrieval, pipelineVars, chatVars, sessionVars>>

\* The caller has its result or its exception: the frame is gone
Finish(i) ==
    /\ invocations[i].pc \in {"done", "error"}
    /\ invocations' = [invocations EXCEPT ![i] = IdleFrame]
    /\ UNCHANGED <<store, retrieval, pipelineVars, chatVars, sessionVars>>

\* ------------------------------------------- any other client of the API

\* Histories a client may post: any senders in any order
Turns == [sender : Senders, content : Contents]

Histories == UNION {[1..n -> Turns] : n \in 0..MaxHistory}

\* A client other than the page posts to /api/analyze
ApiPost ==
    /\ analyzeReq.st = "none"
    /\ \E h \in Histories :
          analyzeReq' = [st |-> "posted", message |-> "", history |-> h]
    /\ analyzeRes' = Pending
    /\ UNCHANGED <<store, callerVars, a_pc, history, conversation_text, query_embedding,
                   relevant_context, raw, a_result, a_error, embed_calls, fetch_calls,
                   judge_calls, chatVars, sessionVars>>

\* ... and reads the answer
ApiReceive ==
    /\ analyzeReq.st = "handling"
    /\ analyzeRes.st \notin {"none", "pending"}
    /\ RetireAnalyze
    /\ UNCHANGED <<store, callerVars, chatVars, sessionVars>>

\* Histories longer than the window of check_alignment
LongHistories == UNION {[1..n -> Turns] : n \in 0..MaxLongHistory}

\* A client posts such a history to /api/analyze
ApiPostLong ==
    /\ analyzeReq.st = "none"
    /\ \E h \in LongHistories :
          analyzeReq' = [st |-> "posted", message |-> "", history |-> h]
    /\ analyzeRes' = Pending
    /\ UNCHANGED <<store, callerVars, a_pc, history, conversation_text, query_embedding,
                   relevant_context, raw, a_result, a_error, embed_calls, fetch_calls,
                   judge_calls, chatVars, sessionVars>>

\* A client other than the page posts to /api/chat
ChatApiPost ==
    /\ chatReq.st = "none"
    /\ \E h \in Histories, m \in Contents :
          chatReq' = [st |-> "posted", message |-> m, history |-> h]
    /\ chatRes' = Pending
    /\ UNCHANGED <<store, callerVars, pipelineVars, c_pc, chat_messages, sessionVars>>

\* ... and reads the answer
ChatApiReceive ==
    /\ chatReq.st = "handling"
    /\ chatRes.st \notin {"none", "pending"}
    /\ RetireChat
    /\ UNCHANGED <<store, callerVars, pipelineVars, sessionVars>>

\* ---------------------------------------------------------- specifications

\* The browser session with the two endpoints it calls
Next ==
    \/ OpenerArrives
    \/ handleSend
    \/ FetchRejects
    \/ PromiseAllRejects
    \/ BothResolve
    \/ AlexTimerFires
    \/ MinimemTimerFires
    \/ ChatRequest
    \/ ChatCompletionReturns
    \/ AnalyzeRequest
    \/ EmbeddingReturns
    \/ FetchReturns
    \/ CompletionReturns

Spec == Init /\ [][Next]_vars

\* /api/analyze called with arbitrary histories
NextApi ==
    \/ ApiPost
    \/ ApiReceive
    \/ AnalyzeRequest
    \/ EmbeddingReturns
    \/ FetchReturns
    \/ CompletionReturns

SpecApi == Init /\ [][NextApi]_vars

\* /api/chat called with arbitrary histories
NextChat ==
    \/ ChatApiPost
    \/ ChatApiReceive
    \/ ChatRequest
    \/ ChatCompletionReturns

SpecChat == Init /\ [][NextChat]_vars

\* /api/analyze called with long histories before any decision is stored
InitEmpty == Init /\ store = <<>>

NextLong ==
    \/ ApiPostLong
    \/ ApiReceive
    \/ AnalyzeRequest
    \/ EmbeddingReturns
    \/ FetchReturns

SpecLong == InitEmpty /\ [][NextLong]_vars

\* find_relevant_context's query, run and re-run
NextRetrieval ==
    \/ FindRelevantContext
    \/ FindRelevantContextAgain

SpecRetrieval == Init /\ [][NextRetrieval]_vars

\* A small store, for the specifications whose runs are compared or followed
\* to their end
InitPair == Init /\ Len(store) <= MaxPairDecisions

NextPair ==
    \/ \E i \in Callers : Invoke(i)
    \/ \E i \in Callers : Resume(i)
    \/ \E i \in Callers : Finish(i)

SpecPair == InitPair /\ [][NextPair]_vars

\* The session when every request in flight is answered in the end, every
\* continuation after an await is run and every timer fires.  A rejection of
\* a fetch and a new send by the user may happen but need not.
Fairness ==
    /\ WF_vars(ChatRequest)
    /\ WF_vars(ChatCompletionReturns)
    /\ WF_vars(AnalyzeRequest)
    /\ WF_vars(EmbeddingReturns)
    /\ WF_vars(FetchReturns)
    /\ WF_vars(CompletionReturns)
    /\ WF_vars(PromiseAllRejects)
    /\ WF_vars(BothResolve)
    /\ WF_vars(OpenerArrives)
    /\ WF_vars(AlexTimerFires)
    /\ WF_vars(MinimemTimerFires)

SpecLive == InitPair /\ [][Next]_vars /\ Fairness

\* ------------------------------------------------------------- properties

VerdictKeys == {"issue", "relevant_decision", "meeting_title", "severity"}
IsNull(v) == v \in {"null", "undefined"}
TopSimilarity == relevant_context[1].similarity

\* C1: an invocation whose top retrieved similarity is below 0.75 returns
\* aligned = true with the top similarity and every other field null, and
\* never calls the completion service.
C1_GatedBelowThreshold ==
    (relevant_context # <<>> /\ TopSimilarity < 750000) =>
        /\ a_pc = "done"
        /\ judge_calls = 0
        /\ DOMAIN a_result = VerdictKeys \cup {"aligned", "meeting_date", "similarity"}
        /\ a_result.aligned = "true"
        /\ a_result.similarity = TopSimilarity
        /\ \A k \in VerdictKeys \cup {"meeting_date"} : a_result[k] = "null"
        /\ analyzeRes = [st |-> "ok", body |-> a_result]

C1_Witness ==
    /\ a_pc = "done"
    /\ relevant_context # <<>>
    /\ TopSimilarity = 749999
    /\ a_result.aligned = "true"

C3_SchemaInvariant ==
    a_pc = "done" =>
        /\ Get(a_result, "aligned") = "false" <=>
              \A k \in VerdictKeys : ~IsNull(Get(a_result, k))
        /\ Get(a_result, "aligned") = "true" =>
              \A k \in VerdictKeys : IsNull(Get(a_result, k))

\* C4: when the session processes a result, aligned = false makes the stage
\* 'misaligned', aligned = true in stage 'misaligned' makes it 'aligned';
\* no other step changes the stage, and 'aligned' is entered only from
\* 'misaligned'.
C4_StageTransition ==
    [][ /\ (send_pc = "minimemTimer" /\ send_pc' = "idle") =>
            /\ Get(alignmentData, "aligned") = "false" => gameStage' = "misaligned"
            /\ (Get(alignmentData, "aligned") = "true" /\ gameStage = "misaligned") =>
                  gameStage' = "aligned"
        /\ gameStage' # gameStage => (send_pc = "minimemTimer" /\ send_pc' = "idle")
        /\ (gameStage' = "aligned" /\ gameStage # "aligned") => gameStage = "misaligned"
      ]_vars

\* 'misaligned' re-entered after the stage had been 'aligned'
C4_Witness ==
    /\ gameStage = "misaligned"
    /\ \E i \in DOMAIN messages : messages[i].alertType = "success"

\* C5: whatever the posted history holds, the query string (which is also
\* the conversation part of the judge prompt) has user and alex lines only.
C5_WindowIsolation ==
    \A i \in DOMAIN conversation_text : conversation_text[i][1] \in {"User", "Alex"}

C5_Witness ==
    /\ a_pc = "judging"
    /\ \E i \in DOMAIN analyzeReq.history : analyzeReq.history[i].sender = "minimem"
    /\ Len(conversation_text) >= 2

\* C6: a completion body that is not JSON ends the invocation with the
\* parse error (json.JSONDecodeError); no result is returned.
C6_ParseFailure ==
    raw.kind = "text" =>
        /\ a_pc = "error"
        /\ a_error = "JSONDecodeError"
        /\ DOMAIN a_result = {}
        /\ analyzeRes.st = "status500"

C6_Witness ==
    /\ raw.kind = "text"
    /\ a_pc = "error"
    /\ judge_calls = 1

\* The judgment response contract: exactly the five keys, aligned a boolean,
\* all four fields null when aligned, all four strings and severity one of
\* low, medium, high when not.
ValidVerdict(v) ==
    /\ DOMAIN v = VerdictKeys \cup {"aligned"}
    /\ v.aligned \in {"true", "false"}
    /\ v.aligned = "true" => \A k \in VerdictKeys : v[k] = "null"
    /\ v.aligned = "false" =>
          /\ \A k \in VerdictKeys : v[k] \notin {"null", "true", "false"}
          /\ v.severity \in {"low", "medium", "high"}

\* C7: a completion body that parses but does not match the response
\* contract is rejected: no result is built from it.
C7_MalformedRejected ==
    (raw.kind = "object" /\ ~ValidVerdict(raw.value)) => a_pc # "done"

\* C8: with no decision in the store, retrieval returns an empty list and
\* the invocation returns aligned = true with similarity 0.0 without calling
\* the completion service; only a failing service ends it otherwise.
C8_EmptyStore ==
    Len(store) = 0 =>
        /\ relevant_context = <<>>
        /\ judge_calls = 0
        /\ a_pc # "judging"
        /\ a_pc = "done" =>
              /\ fetch_calls = 1
              /\ a_result.aligned = "true"
              /\ a_result.similarity = 0
              /\ \A k \in VerdictKeys \cup {"meeting_date"} : a_result[k] = "null"
        /\ a_pc = "error" => a_error \in {"EmbeddingServiceError", "RetrievalError"}

C8_Witness ==
    /\ Len(store) = 0
    /\ a_pc = "done"
    /\ fetch_calls = 1
    /\ a_result.similarity = 0

\* C9: every returned result carries a similarity, within [-1, 1], equal to
\* that of the top-ranked retrieved row (0.0 when nothing was retrieved),
\* on the gated and on the judged path, whatever the completion returned.
C9_SimilarityFromRetrieval ==
    a_pc = "done" =>
        /\ "similarity" \in DOMAIN a_result
        /\ a_result.similarity >= -1000000
        /\ a_result.similarity <= 1000000
        /\ a_result.similarity = IF relevant_context # <<>> THEN TopSimilarity ELSE 0
        /\ \A i \in DOMAIN relevant_context :
              relevant_context[i].similarity <= a_result.similarity

\* A judged result whose completion body brought a similarity of its own
C9_Witness ==
    /\ a_pc = "done"
    /\ judge_calls = 1
    /\ raw.kind = "object"
    /\ "similarity" \in DOMAIN raw.value
    /\ raw.value.similarity # a_result.similarity

\* C10: when the alignment check of a turn failed and the teammate reply
\* arrived, the session goes on as for an aligned result: the reply is
\* scheduled and no notice of the failure is posted.
C10_FailureSkipsCheck ==
    [][ (/\ send_pc = "awaiting"
         /\ chatRes.st = "ok"
         /\ analyzeRes.st = "status500"
         /\ send_pc' # "awaiting") =>
            /\ send_pc' = "alexTimer"
            /\ messages' = messages
            /\ ~Falsy(Get(alignmentData', "aligned"))
      ]_vars

\* C11: handleSend issues the chat call and the alignment call together,
\* with the same payload, and goes on with the two results only once both
\* have resolved: it leaves the await with the two bodies exactly when both
\* answered ok, and through the catch block only after a rejection or after
\* both resolved with one not ok.  The order of the two completions has no
\* part in it.
C11_ReconcileAfterBoth ==
    [][ /\ (send_pc = "idle" /\ send_pc' = "awaiting") =>
            /\ chatReq'.st = "posted" /\ analyzeReq'.st = "posted"
            /\ chatReq'.message = analyzeReq'.message
            /\ chatReq'.history = analyzeReq'.history
            /\ chatRes' = Pending /\ analyzeRes' = Pending
        /\ (send_pc = "awaiting" /\ send_pc' = "alexTimer") =>
            /\ chatRes.st = "ok" /\ analyzeRes.st = "ok"
            /\ chatData' = chatRes.body
            /\ alignmentData' = analyzeRes.body
            /\ messages' = messages /\ gameStage' = gameStage
        /\ (send_pc = "awaiting" /\ send_pc' = "idle") =>
            \/ IsRejected(chatRes) \/ IsRejected(analyzeRes)
            \/ /\ chatRes.st \in {"ok", "status500"}
               /\ analyzeRes.st \in {"ok", "status500"}
               /\ chatRes.st = "status500" \/ analyzeRes.st = "status500"
        /\ (send_pc = "awaiting" /\ chatRes.st = "ok" /\ analyzeRes.st = "ok") =>
            send_pc' \in {"awaiting", "alexTimer"}
      ]_vars

\* The alignment call completed first and the session still waits for the chat call
C11_Witness ==
    /\ send_pc = "awaiting"
    /\ analyzeRes.st = "ok"
    /\ chatRes.st = "pending"
    /\ c_pc = "completing"

\* The positions, within the last 6 turns of the posted history, of the
\* turns that are not the guardian's
ForwardedTurns == {i \in DOMAIN LastN(chatReq.history, 6) :
                      LastN(chatReq.history, 6)[i].sender # "minimem"}

\* C12: what chat_with_teammate hands to the completion service is the
\* system prompt, one message per non-guardian turn of the window, in
\* order, and the new message: no guardian turn is forwarded, whatever the
\* history.  The operation runs no embedding, store query or judgment.
C12_TeammateNeverSeesGuardian ==
    c_pc = "completing" =>
        /\ Len(chat_messages) = Cardinality(ForwardedTurns) + 2
        /\ chat_messages[1].role = "system"
        /\ chat_messages[Len(chat_messages)] = [role |-> "user", content |-> chatReq.message]
        /\ \A i \in ForwardedTurns :
              chat_messages[1 + Cardinality({j \in ForwardedTurns : j <= i})] =
                 [role |-> IF LastN(chatReq.history, 6)[i].sender = "user"
                           THEN "user" ELSE "assistant",
                  content |-> LastN(chatReq.history, 6)[i].content]
        /\ embed_calls = 0 /\ fetch_calls = 0 /\ judge_calls = 0

\* A history with a guardian turn between two others has been forwarded
C12_Witness ==
    /\ c_pc = "completing"
    /\ Len(chatReq.history) = 3
    /\ chatReq.history[2].sender = "minimem"
    /\ chatReq.history[3].sender = "alex"
    /\ Len(chat_messages) = 4

\* The last thing posted is the notice of a timed-out call
TimedOut ==
    /\ Len(messages) > 0
    /\ messages[Len(messages)].content = TimeoutNotice

\* C13: once a call has timed out and its notice is posted, the send is
\* over: nothing is in flight, no indicator is shown, the input is enabled
\* again, and the next send is accepted.
C13_TimeoutRetryable ==
    TimedOut =>
        /\ ~isSending /\ ~isAlexTyping /\ ~isMinimemAnalyzing
        /\ send_pc = "idle"
        /\ chatRes = NoResponse /\ analyzeRes = NoResponse
        /\ chatReq = NoRequest /\ analyzeReq = NoRequest
        /\ sends < MaxSends => ENABLED handleSend

\* After a timeout notice the user sent again and Alex's reply arrived
C13_Witness ==
    \E i, j \in DOMAIN messages :
        /\ i < j
        /\ messages[i].content = TimeoutNotice
        /\ messages[j].sender = "alex"
        /\ messages[j].content \in Replies

\* C14: the text check_alignment embeds is made of the last 4 turns of the
\* history it is given (all of them when there are fewer), in their order,
\* one line "<Label>: <content>" per turn.
C14_QueryWindow ==
    a_pc # "idle" =>
        LET k == IF Len(history) < 4 THEN Len(history) ELSE 4
        IN  /\ Len(conversation_text) = k
            /\ \A i \in 1..k :
                  conversation_text[i] =
                     <<IF history[Len(history) - k + i].sender = "user" THEN "User"
                       ELSE IF history[Len(history) - k + i].sender = "alex" THEN "Alex"
                       ELSE "Minimem",
                       history[Len(history) - k + i].content>>

\* Five turns reached check_alignment and the first, unlike the second, is
\* not in the text
C14_Witness ==
    /\ a_pc = "embedding"
    /\ Len(history) = 5
    /\ Len(conversation_text) = 4
    /\ history[1] # history[2]
    /\ conversation_text[1] = <<Capitalize(history[2].sender), history[2].content>>

\* The identifier of the stored decision a row was made from
DecisionId(text) == CHOOSE i \in DOMAIN DecisionTexts : DecisionTexts[i] = text

\* C15: find_relevant_context returns at most top_k rows, by descending
\* similarity, and of two rows of equal similarity the one of the smaller
\* decision id comes first.
C15_RankedWithTieBreak ==
    retrieval.st # "none" =>
        /\ Len(retrieval.rows) <= retrieval.top_k
        /\ \A i, j \in DOMAIN retrieval.rows :
              i < j =>
                 \/ retrieval.rows[i].similarity > retrieval.rows[j].similarity
                 \/ /\ retrieval.rows[i].similarity = retrieval.rows[j].similarity
                    /\ DecisionId(retrieval.rows[i].decision)
                          < DecisionId(retrieval.rows[j].decision)

\* C16: the identical query run twice over the same store and the same
\* query vector returns the same rows in the same order.
C16_RetrievalDeterministic ==
    retrieval.st = "twice" => retrieval.again = retrieval.rows

\* C17: calls of check_alignment share nothing they write.  Whatever the
\* interleaving, a step changes the frame of one call only, and takes it
\* where that call alone would go from its own frame: to its start on its
\* own request, to one of its own successors, or to its end.  A finished
\* call's result is the one its own rows and its own completion determine.
C17_InvocationsIndependent ==
    [][ \A i \in Callers :
          /\ invocations'[i] # invocations[i] =>
                /\ \A j \in Callers \ {i} : invocations'[j] = invocations[j]
                /\ \/ /\ invocations[i].pc = "idle"
                      /\ \E req \in PairRequests : invocations'[i] = Started(req)
                   \/ invocations'[i] \in Successors(invocations[i], store)
                   \/ /\ invocations[i].pc \in {"done", "error"}
                      /\ invocations'[i] = IdleFrame
          /\ invocations'[i].pc \notin {"idle"} =>
                /\ invocations'[i].conversation_history =
                      FilterHistory(invocations'[i].request.history)
                /\ invocations'[i].conversation_text =
                      ConversationText(invocations'[i].conversation_history)
          /\ invocations'[i].pc = "done" =>
                invocations'[i].result =
                   IF Gate(invocations'[i].relevant_context)
                   THEN Overlay(invocations'[i].raw.value, invocations'[i].relevant_context[1])
                   ELSE GatedResult(invocations'[i].relevant_context)
      ]_vars

\* The two calls are in flight on different requests, one already judging
C17_Witness ==
    /\ invocations[1].pc = "judging"
    /\ invocations[2].pc = "fetching"
    /\ invocations[1].request # invocations[2].request

\* The external calls an invocation has made, in the order embedding,
\* store query, completion
Calls == <<embed_calls, fetch_calls, judge_calls>>

\* C18: an invocation calls the embedding service exactly once and the
\* store and the completion service at most once each.  When a call fails
\* the invocation ends with that failure, answered as a 500, and makes no
\* further call: the calls made are those up to the failing one.
C18_NoRetries ==
    [][ /\ a_pc' # "idle" =>
            /\ embed_calls' = 1
            /\ fetch_calls' \in {0, 1}
            /\ judge_calls' \in {0, 1}
        /\ a_pc' = "error" =>
            /\ analyzeRes'.st = "status500"
            /\ a_result' = EmptyObject
            /\ Calls' = CASE a_error' = "EmbeddingServiceError" -> <<1, 0, 0>>
                          [] a_error' = "RetrievalError" -> <<1, 1, 0>>
                          [] OTHER -> <<1, 1, 1>>
        /\ a_pc = "error" =>
            \/ a_pc' = "idle"
            \/ a_pc' = "error" /\ Calls' = Calls /\ a_error' = a_error
      ]_vars

\* The store query failed after the one embedding call, and nothing followed
C18_Witness ==
    /\ a_pc = "error"
    /\ a_error = "RetrievalError"
    /\ Calls = <<1, 1, 0>>

\* C19: within an invocation the steps come in the order embed, retrieve,
\* gate, judge, one at a time: the store is queried only once the embedding
\* has returned, the completion is called only once the rows are there and
\* have passed the gate, and at each point exactly the calls of the earlier
\* steps have been made.
C19_StepsInOrder ==
    [][ /\ a_pc' = "embedding" =>
            /\ Calls' = <<1, 0, 0>>
            /\ relevant_context' = <<>> /\ raw' = NoRaw
        /\ a_pc' = "fetching" =>
            /\ Calls' = <<1, 1, 0>>
            /\ relevant_context' = <<>> /\ raw' = NoRaw
        /\ a_pc' = "judging" =>
            /\ Calls' = <<1, 1, 1>>
            /\ relevant_context' # <<>>
            /\ relevant_context'[1].similarity >= 750000
            /\ raw' = NoRaw
        /\ a_pc' = "done" =>
            /\ embed_calls' = 1 /\ fetch_calls' = 1
            /\ (judge_calls' = 1) <=> (raw' # NoRaw)
        /\ a_pc' # a_pc =>
            \/ a_pc = "idle" /\ a_pc' = "embedding"
            \/ a_pc = "embedding" /\ a_pc' \in {"fetching", "error"}
            \/ a_pc = "fetching" /\ a_pc' \in {"judging", "done", "error"}
            \/ a_pc = "judging" /\ a_pc' \in {"done", "error"}
            \/ a_pc \in {"done", "error"} /\ a_pc' = "idle"
      ]_vars

\* An invocation went through all four steps
C19_Witness ==
    /\ a_pc = "done"
    /\ Calls = <<1, 1, 1>>
    /\ raw.kind = "object"
    /\ relevant_context # <<>>

\* C20: after a successful judgment the result carries the top row's
\* meeting_date and similarity, whatever the completion said about them,
\* and the completion's own aligned, issue, relevant_decision,
\* meeting_title and severity untouched.
C20_OverlayOnSuccess ==
    (a_pc = "done" /\ judge_calls = 1) =>
        /\ Get(a_result, "meeting_date") = relevant_context[1].meeting_date
        /\ "similarity" \in DOMAIN a_result
        /\ a_result.similarity = relevant_context[1].similarity
        /\ \A k \in {"aligned", "issue", "relevant_decision", "meeting_title", "severity"} :
              Get(a_result, k) = Get(raw.value, k)

\* The completion answered with a date and a similarity of its own, and
\* the result has the top row's instead
C20_Witness ==
    /\ a_pc = "done"
    /\ judge_calls = 1
    /\ Get(raw.value, "meeting_date") = "1999-01-01"
    /\ a_result.meeting_date = relevant_context[1].meeting_date
    /\ a_result.aligned = "true"

\* C21: a result with aligned = false names, as relevant_decision, the text
\* of one of the rows retrieved for that invocation.
C21_CitedDecisionRetrieved ==
    (a_pc = "done" /\ Get(a_result, "aligned") = "false") =>
        \E i \in DOMAIN relevant_context :
            Get(a_result, "relevant_decision") = relevant_context[i].decision

\* C22: in a result with aligned = false that cites a stored decision, the
\* meeting_date and the meeting_title are those of the meeting that
\* decision belongs to, whichever rank the decision had.
C22_DateOfCitedDecision ==
    (a_pc = "done" /\ Get(a_result, "aligned") = "false") =>
        \A i \in DOMAIN store :
            Get(a_result, "relevant_decision") = store[i].content =>
                /\ Get(a_result, "meeting_title") = MeetingTitles[store[i].meeting_id]
                /\ Get(a_result, "meeting_date") = MeetingDates[store[i].meeting_id]

\* The positions of the turns of the posted history that are not the guardian's
Spoken == {i \in DOMAIN analyzeReq.history : analyzeReq.history[i].sender # "minimem"}

\* How many such turns there are from position i to the end
FromEnd(i) == Cardinality({j \in Spoken : j >= i})

\* C23: the guardian's turns are taken out before the window is cut: the
\* query text has one line for each of the last 4 turns of the posted
\* history that are not the guardian's (all of them when there are fewer),
\* in order, wherever the guardian's turns lie between them.
C23_FilterBeforeWindow ==
    (a_pc # "idle" /\ analyzeReq.st = "handling") =>
        LET k == IF Cardinality(Spoken) < 4 THEN Cardinality(Spoken) ELSE 4
        IN  /\ Len(conversation_text) = k
            /\ \A i \in Spoken :
                  FromEnd(i) <= k =>
                     conversation_text[k - FromEnd(i) + 1] =
                        <<IF analyzeReq.history[i].sender = "user" THEN "User" ELSE "Alex",
                          analyzeReq.history[i].content>>

\* Four spoken turns with a guardian turn among the last four posted
C23_Witness ==
    /\ a_pc = "embedding"
    /\ Len(analyzeReq.history) = 5
    /\ analyzeReq.history[3].sender = "minimem"
    /\ Cardinality(Spoken) = 4
    /\ Len(conversation_text) = 4

NotGuardian(turn) == turn.sender # "minimem"

\* What was said in a posted history: sender and content of the turns that
\* are not the guardian's
SpokenTurns(h) ==
    [i \in 1..Len(SelectSeq(h, NotGuardian)) |->
        <<SelectSeq(h, NotGuardian)[i].sender, SelectSeq(h, NotGuardian)[i].content>>]

\* C24: two analyze invocations over the same store whose requests agree on
\* the turns that are not the guardian's work on the same history and the
\* same query text, whatever their message fields, guardian turns and
\* timestamps; given the same rows and the same completion they return the
\* same result.
C24_ResultFromSpokenTurns ==
    \A i, j \in Callers :
        ( /\ invocations[i].pc # "idle"
          /\ invocations[j].pc # "idle"
          /\ SpokenTurns(invocations[i].request.history)
                = SpokenTurns(invocations[j].request.history) ) =>
            /\ invocations[i].conversation_history = invocations[j].conversation_history
            /\ invocations[i].conversation_text = invocations[j].conversation_text
            /\ ( /\ invocations[i].pc = "done"
                 /\ invocations[j].pc = "done"
                 /\ invocations[i].relevant_context = invocations[j].relevant_context
                 /\ invocations[i].raw = invocations[j].raw ) =>
                    invocations[i].result = invocations[j].result

\* Two finished invocations whose requests differ in message, guardian
\* turn and timestamps, with one and the same judged result
C24_Witness ==
    /\ invocations[1].request.message # invocations[2].request.message
    /\ Len(invocations[1].request.history) # Len(invocations[2].request.history)
    /\ SpokenTurns(invocations[1].request.history)
          = SpokenTurns(invocations[2].request.history)
    /\ invocations[1].pc = "done"
    /\ invocations[2].pc = "done"
    /\ invocations[1].raw.kind = "object"
    /\ invocations[1].result = invocations[2].result

\* This step appends a message of the user
UserMessagePosted ==
    /\ Len(messages') = Len(messages) + 1
    /\ messages'[Len(messages')].sender = "user"

\* C25: one utterance at a time.  While isSending is true no send is
\* accepted: no user message is appended and no request is posted.  A user
\* message is appended only when isSending is false and the trimmed input
\* is not empty, and with it the one pair of requests is posted.  A send is
\* in progress only while isSending is true.
C25_OneUtteranceInFlight ==
    [][ /\ isSending =>
            /\ ~UserMessagePosted
            /\ sends' = sends
            /\ chatReq' # chatReq => chatReq'.st # "posted"
            /\ analyzeReq' # analyzeReq => analyzeReq'.st # "posted"
        /\ UserMessagePosted =>
            /\ ~isSending /\ isSending'
            /\ messages'[Len(messages')].content # ""
            /\ chatReq'.st = "posted" /\ analyzeReq'.st = "posted"
            /\ sends' = sends + 1
        /\ (chatReq'.st = "posted" /\ chatReq.st # "posted") => UserMessagePosted
        /\ send_pc' # "idle" => isSending'
      ]_vars

\* The second utterance of the session is in flight, the first one done
C25_Witness ==
    /\ isSending
    /\ sends = 2
    /\ send_pc = "awaiting"
    /\ chatReq.st = "posted"
    /\ analyzeReq.st = "handling"

\* C26: every accepted send finishes: from any state with a send in
\* progress the session reaches one where isSending, isAlexTyping and
\* isMinimemAnalyzing are all false, whether the calls succeed, fail or
\* time out.
C26_SendFinishes ==
    isSending ~> (~isSending /\ ~isAlexTyping /\ ~isMinimemAnalyzing)

\* A send that went through both timers has finished
C26_Witness ==
    /\ ~isSending /\ ~isAlexTyping /\ ~isMinimemAnalyzing
    /\ sends = 1
    /\ Len(messages) > 0
    /\ messages[Len(messages)].sender = "minimem"

\* The positions of the user's messages
UserTurns == {u \in DOMAIN messages : messages[u].sender = "user"}

\* The end of the utterance that starts at u: the next user message, or the end
UtteranceEnd(u) ==
    IF \E v \in UserTurns : v > u
    THEN (CHOOSE v \in UserTurns : v > u /\ \A w \in UserTurns : w > u => v <= w) - 1
    ELSE Len(messages)

IsReplyOrVerdict(m) == m.id = "alex" \/ m.sender = "minimem"

\* The chat replies and guardian messages posted for the utterance at u
Answers(u) == SelectSeq(SubSeq(messages, u + 1, UtteranceEnd(u)), IsReplyOrVerdict)

\* This step appends a guardian message
GuardianPosted ==
    /\ Len(messages') = Len(messages) + 1
    /\ messages'[Len(messages')].sender = "minimem"

\* C27: for every utterance the user message comes first, then Alex's
\* reply, then the guardian's message if there is one: a guardian message
\* is never posted before the reply of its utterance.  The stage changes in
\* the very step that posts a guardian message and in no other.
C27_MessageOrder ==
    [][ /\ messages' # messages =>
              \A u \in UserTurns' :
                 /\ Len(Answers(u)') <= 2
                 /\ Len(Answers(u)') >= 1 => Answers(u)'[1].id = "alex"
                 /\ Len(Answers(u)') = 2 => Answers(u)'[2].sender = "minimem"
        /\ GuardianPosted =>
              /\ send_pc = "minimemTimer"
              /\ \E u \in UserTurns : Len(Answers(u)) = 1 /\ UtteranceEnd(u) = Len(messages)
        /\ gameStage' # gameStage => GuardianPosted
      ]_vars

\* User message, reply and warning of the second utterance, in this order
C27_Witness ==
    /\ sends = 2
    /\ Len(messages) >= 3
    /\ messages[Len(messages) - 2].sender = "user"
    /\ messages[Len(messages) - 1].id = "alex"
    /\ messages[Len(messages)].alertType = "warning"

\* The step in which the 900 ms callback runs
VerdictProcessed == send_pc = "minimemTimer" /\ send_pc' = "idle"

\* C28: the 900 ms callback posts a warning for every result with
\* aligned = false, and a success message exactly for a result with
\* aligned = true processed in stage 'misaligned'; a result with
\* aligned = true processed in stage 'idle' or 'aligned' posts nothing and
\* leaves the stage as it is.  The stage never goes back to 'idle'.
C28_VerdictMessages ==
    [][ /\ (VerdictProcessed /\ Get(alignmentData, "aligned") = "false") =>
              /\ messages' = Append(messages, WarningMsg)
              /\ gameStage' = "misaligned"
        /\ (VerdictProcessed /\ Get(alignmentData, "aligned") = "true"
                             /\ gameStage = "misaligned") =>
              /\ messages' = Append(messages, SuccessMsg)
              /\ gameStage' = "aligned"
        /\ (VerdictProcessed /\ Get(alignmentData, "aligned") = "true"
                             /\ gameStage \in {"idle", "aligned"}) =>
              /\ messages' = messages
              /\ gameStage' = gameStage
        /\ (GuardianPosted /\ messages'[Len(messages')].alertType = "success") =>
              /\ VerdictProcessed
              /\ Get(alignmentData, "aligned") = "true"
              /\ gameStage = "misaligned"
        /\ gameStage # "idle" => gameStage' # "idle"
      ]_vars

\* After a warning and a success, a third aligned result was processed in
\* stage 'aligned' and posted nothing
C28_Witness ==
    /\ sends = 3
    /\ send_pc = "idle"
    /\ gameStage = "aligned"
    /\ messages[Len(messages)].id = "alex"
    /\ \E i \in DOMAIN messages : messages[i].alertType = "warning"

\* The step in which a send ends in the catch block
SendFails == send_pc = "awaiting" /\ send_pc' = "idle"

\* C29: a send that fails, by a response that is not ok, a network error or
\* a timeout, appends exactly one error notice and nothing else, leaves the
\* stage as it is, and has posted neither a reply of the chat service nor a
\* guardian message for its utterance.
C29_FailureLeavesStage ==
    [][ SendFails =>
          /\ \/ chatRes.st \in {"status500", "rejected"}
             \/ analyzeRes.st \in {"status500", "rejected"}
          /\ \E notice \in {TimeoutNotice, ConnectionNotice} :
                messages' = Append(messages, Msg("error", "alex", notice))
          /\ gameStage' = gameStage
          /\ \A u \in UserTurns' :
                UtteranceEnd(u)' = Len(messages') => Answers(u)' = <<>>
          /\ ~isSending' /\ ~isAlexTyping' /\ ~isMinimemAnalyzing'
      ]_vars

\* A send failed while the stage was 'misaligned', and the stage still is
C29_Witness ==
    /\ send_pc = "idle"
    /\ gameStage = "misaligned"
    /\ Len(messages) > 0
    /\ messages[Len(messages)].id = "error"

\* C30: every turn of a history the page posts is a message the user
\* typed, the opener or a reply of the chat service, never a notice the
\* page made up itself, and the last turn is the message just typed, which
\* is not empty.
C30_HistoryTurns ==
    \A req \in {chatReq, analyzeReq} :
        req.st = "posted" =>
            /\ Len(req.history) > 0
            /\ req.history[Len(req.history)] = [sender |-> "user", content |-> req.message]
            /\ req.message # ""
            /\ \A i \in DOMAIN req.history :
                  /\ req.history[i].content \notin {TimeoutNotice, ConnectionNotice}
                  /\ \/ req.history[i].sender = "user"
                     \/ req.history[i].content = ALEX_OPENER.content
                     \/ req.history[i].content \in Replies

====
